---- MODULE Spec2Model ----
(***************************************************************************)
(* The image squeezer: App (handleFiles, processOne, removeImage), the     *)
(* size-targeting compressor compressImage and the analyzer analyzeImage.  *)
(*                                                                         *)
(* One action is one event-loop task: a user event handler, or one         *)
(* callback of a FileReader, an Image or canvas.toBlob, together with the  *)
(* promise continuations (microtasks) that it makes runnable.  React       *)
(* applies the queued setImages updaters in the order they were queued, so *)
(* an updater is applied where it is queued.                               *)
(*                                                                         *)
(* Qualities are in hundredths (0.92 is 92).  The doubles the code computes*)
(* are 0.92, 0.8400000000000001, ..., 0.12000000000000018,                 *)
(* 0.040000000000000174: none is within 0.01 of minQuality, so the         *)
(* comparison q <= minQuality agrees with the one on hundredths.           *)
(***************************************************************************)
EXTENDS Integers, Sequences, FiniteSets, TLC

\* ------------------------------------------------------------------ bounds
\* Files submitted in one behaviour.
MaxFiles == 2
\* Distinct strings Math.random().toString(36).substr(2, 9) can produce.
NumIds == 2
\* Largest image width, height and maxWidth argument of a standalone call.
MaxDim == 4

\* ------------------------------------------------------- program constants
\* compressImage(image.original, 800): the one positional argument.
ProcessOneArg == 800
DefaultTargetSizeKb == 800
DefaultMaxWidth == 2560
StartQuality == 92
QualityStep == 8
MinQuality == 10
BytesPerKb == 1024

ErrFileRead == "File read error"
ErrImageLoad == "Image load error"
ErrCanvasContext == "Canvas context failed"
ErrCompression == "Compression failed"

\* What analyzeImage can return.
Description == "description"
NoAnalysisText == "No analysis available."
FallbackText == "AI analysis could not be completed."

\* ------------------------------------------------------------- input sets
Ids == 1..NumIds
Serials == 1..MaxFiles
\* file.size of a dropped file: an empty file and a 5 MB one.
FileSizes == {0, 5242880}
\* Intrinsic <<width, height>> of the images dropped on the page.
AppImgDims == {<<800, 600>>, <<3000, 2000>>, <<5120, 1>>}
\* blob.size of an encoder output: exactly 800 KB and one byte more.
EncSizes == {ProcessOneArg * BytesPerKb, ProcessOneArg * BytesPerKb + 1}
\* targetSizeKb and maxWidth arguments of a standalone compressImage call.
Targets == {ProcessOneArg, ProcessOneArg + 1}
Dims == 1..MaxDim

\* ------------------------------------------------- absent (undefined) values
NoBlob == [n |-> 0, size |-> 0]
NoUrl == <<0, "none">>
NoSize == -1
NoText == ""
NoFile == [serial |-> 0, size |-> 0]

VARIABLES
    images,           \* useState<ImageFile[]>: the collection, a sequence
    processingQueue,  \* useRef<Set<string>>: ids being processed
    runs,             \* serial -> the processOne call made for that file
    analyses,         \* serial -> the analyzeImage call made for that file
    urls,             \* object URL -> how many times it was revoked
    nextFile,         \* files submitted so far
    call              \* a standalone compressImage call

vars == <<images, processingQueue, runs, analyses, urls, nextFile, call>>

\* ------------------------------------------------------------ compressImage
IdleCall ==
    [pc |-> "idle", file |-> NoFile, targetSizeKb |-> 0, maxWidth |-> 0,
     imgWidth |-> 0, imgHeight |-> 0, width |-> 0, height |-> 0,
     q |-> 0, attempts |-> <<>>, result |-> NoBlob, error |-> NoText]

\* Faulty variant of compressImage: the first argument taken as maxWidth.
compressImageArgAsWidth(file, args) ==
    [IdleCall EXCEPT
        !.pc = "reading",
        !.file = file,
        !.targetSizeKb = DefaultTargetSizeKb,
        !.maxWidth = IF Len(args) >= 1 THEN args[1] ELSE DefaultMaxWidth]

\* compressImage(file, targetSizeKb = 800, maxWidth = 2560) called with the
\* positional arguments args: the executor creates the reader and calls
\* readAsDataURL.
compressImage(file, args) ==
    [IdleCall EXCEPT
        !.pc = "reading",
        !.file = file,
        !.targetSizeKb = IF Len(args) >= 1 THEN args[1] ELSE DefaultTargetSizeKb,
        !.maxWidth = IF Len(args) >= 2 THEN args[2] ELSE DefaultMaxWidth]

\* Faulty variant of reject: the message is kept and the promise never settled.
rejectDropped(c, message) == [c EXCEPT !.pc = "pending", !.error = message]

reject(c, message) == [c EXCEPT !.pc = "rejected", !.error = message]

resolve(c, blob) == [c EXCEPT !.pc = "resolved", !.result = blob]

\* reader.onload: the Image is created and its src set.
ReaderOnLoad(c) == [c EXCEPT !.pc = "decoding"]

\* reader.onerror
ReaderOnError(c) == reject(c, ErrFileRead)

\* img.onerror
ImgOnError(c) == reject(c, ErrImageLoad)

\* The values canvas.height can take from height = (maxWidth / width) * height:
\* the assignment to the unsigned long truncates the double.  The double
\* product can fall just below an exact integer quotient (width 22, height 22,
\* maxWidth 15 gives 14.999999999999998), and then truncates to one less.
ScaledHeights(w, h, m) ==
    {(h * m) \div w} \cup
    (IF (h * m) % w = 0 /\ h * m >= w THEN {(h * m) \div w - 1} ELSE {})

\* Faulty variant of Resize: the width is clamped and the height left as it is.
ResizeWidthOnly(w, h, m, scaled) ==
    IF w > m THEN <<m, h>> ELSE <<w, h>>

\* The resize step: <<width, height>> of the canvas.
Resize(w, h, m, scaled) ==
    IF w > m THEN <<m, scaled>> ELSE <<w, h>>

\* attemptCompression(q): canvas.toBlob(callback, 'image/jpeg', q) is called.
attemptCompression(c, q) == [c EXCEPT !.pc = "encoding", !.q = q]

\* img.onload, for an image of w x h: canvas, resize, getContext, drawImage,
\* attemptCompression(quality).
ImgOnLoad(c, w, h, scaled, ctxOk) ==
    LET size == Resize(w, h, c.maxWidth, scaled)
        d == [c EXCEPT !.imgWidth = w, !.imgHeight = h,
                       !.width = size[1], !.height = size[2]]
    IN  IF ~ctxOk THEN reject(d, ErrCanvasContext)
        ELSE attemptCompression(d, StartQuality)

\* Faulty variant of UnderTarget: the size in KB truncated to a whole number.
UnderTargetWholeKb(blob, targetSizeKb) == blob.size \div BytesPerKb <= targetSizeKb

\* currentSizeKb <= targetSizeKb, where currentSizeKb = blob.size / 1024 is
\* an exact double: the same as a comparison of byte counts.
UnderTarget(blob, targetSizeKb) == blob.size <= targetSizeKb * BytesPerKb

\* Faulty variant of Stops: the loop stops at quality 0 instead of minQuality.
StopsAtZero(c, blob) == UnderTarget(blob, c.targetSizeKb) \/ c.q <= 0

\* The stop condition of the toBlob callback.
Stops(c, blob) == UnderTarget(blob, c.targetSizeKb) \/ c.q <= MinQuality

\* The toBlob callback of the attempt at quality c.q.
ToBlobCallback(c, blob) ==
    LET d == [c EXCEPT !.attempts = Append(@, [q |-> c.q, blob |-> blob])]
    IN  IF blob = NoBlob THEN reject(d, ErrCompression)
        ELSE IF Stops(c, blob) THEN resolve(d, blob)
        ELSE attemptCompression(d, c.q - QualityStep)

\* What the encoder can hand to the callback of the next attempt: null (always
\* for a canvas without pixels), or a new Blob of some size.
EncoderResults(c) ==
    {NoBlob} \cup
    (IF c.width = 0 \/ c.height = 0 THEN {}
     ELSE {[n |-> Len(c.attempts) + 1, size |-> s] : s \in EncSizes})

\* ------------------------------------------------- a standalone compressImage
CallReaderLoad ==
    /\ call.pc = "reading"
    /\ call' = ReaderOnLoad(call)
    /\ UNCHANGED <<images, processingQueue, runs, analyses, urls, nextFile>>

CallReaderError ==
    /\ call.pc = "reading"
    /\ call' = ReaderOnError(call)
    /\ UNCHANGED <<images, processingQueue, runs, analyses, urls, nextFile>>

CallImgLoad ==
    /\ call.pc = "decoding"
    /\ call.file.size > 0
    /\ \E w \in Dims, h \in Dims, ctxOk \in BOOLEAN :
         \E scaled \in ScaledHeights(w, h, call.maxWidth) :
            call' = ImgOnLoad(call, w, h, scaled, ctxOk)
    /\ UNCHANGED <<images, processingQueue, runs, analyses, urls, nextFile>>

CallImgError ==
    /\ call.pc = "decoding"
    /\ call' = ImgOnError(call)
    /\ UNCHANGED <<images, processingQueue, runs, analyses, urls, nextFile>>

CallToBlob ==
    /\ call.pc = "encoding"
    /\ \E blob \in EncoderResults(call) : call' = ToBlobCallback(call, blob)
    /\ UNCHANGED <<images, processingQueue, runs, analyses, urls, nextFile>>

\* --------------------------------------------------------------------- App
IdleRun == [pc |-> "idle", id |-> 0, c |-> IdleCall, updates |-> <<>>]
IdleAnalysis == [pc |-> "idle", blob |-> NoBlob, outcome |-> "none"]

\* URL.createObjectURL returns a new URL each time: the URL made for the
\* original file, or for the compressed blob, of the file with this serial.
createObjectURL(serial, kind) == <<serial, kind>>

\* The urls map after URL.createObjectURL / URL.revokeObjectURL.
Created(u, url) == (url :> 0) @@ u
Revoked(u, url) == IF url \in DOMAIN u THEN [u EXCEPT ![url] = @ + 1] ELSE u

\* One element of newImages: the ImageFile made for a dropped file.
NewImage(serial, id, size) ==
    [id |-> id,
     original |-> [serial |-> serial, size |-> size],
     originalUrl |-> createObjectURL(serial, "original"),
     status |-> "pending",
     originalSize |-> size,
     compressed |-> NoBlob,
     compressedUrl |-> NoUrl,
     compressedSize |-> NoSize,
     error |-> NoText,
     aiAnalysis |-> NoText]

\* The updaters processOne passes to setImages, applied to a matching img.
\* Faulty variant of CompressingUpdate: the item is returned as it is.
CompressingUpdateNone(img) == img

CompressingUpdate(img) == [img EXCEPT !.status = "compressing"]

DoneUpdate(img, blob, url) ==
    [img EXCEPT !.status = "done", !.compressed = blob,
                !.compressedUrl = url, !.compressedSize = blob.size]

\* Faulty variant of CatchUpdate: the message is recorded and the status left.
CatchUpdateNoStatus(img, message) == [img EXCEPT !.error = message]

CatchUpdate(img, message) == [img EXCEPT !.status = "error", !.error = message]

AnalysisUpdate(img, aiResponse) == [img EXCEPT !.aiAnalysis = aiResponse]

\* prev.map(img => img.id === id ? f(img) : img), for each updater.
MapCompressing(prev, id) ==
    [i \in 1..Len(prev) |->
        IF prev[i].id = id THEN CompressingUpdate(prev[i]) ELSE prev[i]]

MapDone(prev, id, blob, url) ==
    [i \in 1..Len(prev) |->
        IF prev[i].id = id THEN DoneUpdate(prev[i], blob, url) ELSE prev[i]]

MapCatch(prev, id, message) ==
    [i \in 1..Len(prev) |->
        IF prev[i].id = id THEN CatchUpdate(prev[i], message) ELSE prev[i]]

MapAnalysis(prev, id, aiResponse) ==
    [i \in 1..Len(prev) |->
        IF prev[i].id = id THEN AnalysisUpdate(prev[i], aiResponse) ELSE prev[i]]

\* Faulty variant of Guarded: processOne without its guard.
GuardedNever(queue, id) == FALSE

\* The guard of processOne: processingQueue.current.has(image.id).
Guarded(queue, id) == id \in queue

\* processOne up to its await, on the state st = [images, queue, runs]: the
\* guard, the 'compressing' update and the call of compressImage.
processOne(st, image) ==
    LET s == image.original.serial
    IN  IF Guarded(st.queue, image.id)
        THEN [st EXCEPT !.runs[s] = [IdleRun EXCEPT !.pc = "skipped", !.id = image.id]]
        ELSE [images |-> MapCompressing(st.images, image.id),
              queue |-> st.queue \cup {image.id},
              runs |-> [st.runs EXCEPT ![s] =
                          [pc |-> "awaiting", id |-> image.id,
                           c |-> compressImage(image.original, <<ProcessOneArg>>),
                           updates |-> <<"compressing">>]]]

\* for (const img of newImages) processOne(img), from the k-th on.
RECURSIVE ProcessAll(_, _, _)
ProcessAll(st, newImages, k) ==
    IF k > Len(newImages) THEN st
    ELSE ProcessAll(processOne(st, newImages[k]), newImages, k + 1)

RECURSIVE CreateAll(_, _, _)
CreateAll(u, newImages, k) ==
    IF k > Len(newImages) THEN u
    ELSE CreateAll(Created(u, newImages[k].originalUrl), newImages, k + 1)

\* handleFiles(files): files is null, or a FileList of n files; ids[k] is what
\* Math.random().toString(36).substr(2, 9) gives for the k-th.
HandleFiles(isNull, n, ids, sizes) ==
    IF isNull THEN UNCHANGED vars
    ELSE
        LET newImages == [k \in 1..n |-> NewImage(nextFile + k, ids[k], sizes[k])]
            st == ProcessAll([images |-> images \o newImages,
                              queue |-> processingQueue,
                              runs |-> runs], newImages, 1)
        IN  /\ images' = st.images
            /\ processingQueue' = st.queue
            /\ runs' = st.runs
            /\ urls' = CreateAll(urls, newImages, 1)
            /\ nextFile' = nextFile + n
            /\ UNCHANGED <<analyses, call>>

\* Faulty variant of AiResponse: the catch block returns the empty-response text.
AiResponseNoFallback(outcome) ==
    CASE outcome = "text" -> Description
      [] OTHER -> NoAnalysisText

\* Faulty variant of AiResponse: an empty response.text is returned as it is.
AiResponseEmptyText(outcome) ==
    CASE outcome = "text" -> Description
      [] outcome = "empty" -> NoText
      [] OTHER -> FallbackText

\* What analyzeImage returns for each way it ends: response.text, the
\* text for an empty response.text, or the fallback of the catch block.
AiResponse(outcome) ==
    CASE outcome = "text" -> Description
      [] outcome = "empty" -> NoAnalysisText
      [] OTHER -> FallbackText

\* A settled compressImage call: the canvas, the image and the attempts are
\* unreachable, the promise keeps how it settled and with what.
Forget(d) == [IdleCall EXCEPT !.pc = d.pc, !.result = d.result, !.error = d.error]

\* processOne after the await, compressImage resolved with blob: the object
\* URL, the call of analyzeImage, the 'done' update, the finally block.  When
\* new GoogleGenAI throws, analyzeImage catches it and returns the fallback,
\* and the then-callback runs as a microtask after the finally block.
Compressed(s, d, ctorOk) ==
    LET id == runs[s].id
        blob == d.result
        url == createObjectURL(s, "compressed")
        done == MapDone(images, id, blob, url)
    IN  /\ urls' = Created(urls, url)
        /\ processingQueue' = processingQueue \ {id}
        /\ IF ctorOk
           THEN /\ images' = done
                /\ analyses' = [analyses EXCEPT ![s] =
                      [pc |-> "reading", blob |-> blob, outcome |-> "none"]]
                /\ runs' = [runs EXCEPT ![s] = [pc |-> "fulfilled", id |-> id,
                      c |-> Forget(d), updates |-> Append(runs[s].updates, "done")]]
           ELSE /\ images' = MapAnalysis(done, id, AiResponse("caught"))
                /\ analyses' = [analyses EXCEPT ![s] =
                      [pc |-> "resolved", blob |-> blob, outcome |-> "caught"]]
                /\ runs' = [runs EXCEPT ![s] = [pc |-> "fulfilled", id |-> id,
                      c |-> Forget(d),
                      updates |-> runs[s].updates \o <<"done", "analysis">>]]

\* Faulty variant of Failed: the catch block without the finally block.
FailedNoCleanup(s, d) ==
    /\ images' = MapCatch(images, runs[s].id, d.error)
    /\ runs' = [runs EXCEPT ![s] = [pc |-> "fulfilled", id |-> runs[s].id,
          c |-> Forget(d), updates |-> Append(runs[s].updates, "error")]]
    /\ UNCHANGED <<processingQueue, analyses, urls>>

\* processOne after the await, compressImage rejected with err: the catch
\* block and the finally block.
Failed(s, d) ==
    LET id == runs[s].id
    IN  /\ images' = MapCatch(images, id, d.error)
        /\ processingQueue' = processingQueue \ {id}
        /\ runs' = [runs EXCEPT ![s] = [pc |-> "fulfilled", id |-> id,
              c |-> Forget(d), updates |-> Append(runs[s].updates, "error")]]
        /\ UNCHANGED <<analyses, urls>>

\* A callback of the compressImage call awaited by run s left it as d: when
\* the promise settled, the continuation of processOne runs as a microtask.
Settle(s, d, ctorOk) ==
    /\ CASE d.pc = "resolved" -> Compressed(s, d, ctorOk)
         [] d.pc = "rejected" -> Failed(s, d)
         [] OTHER -> /\ runs' = [runs EXCEPT ![s].c = d]
                     /\ UNCHANGED <<images, processingQueue, analyses, urls>>
    /\ UNCHANGED <<nextFile, call>>

ReaderLoad(s) ==
    /\ runs[s].pc = "awaiting" /\ runs[s].c.pc = "reading"
    /\ Settle(s, ReaderOnLoad(runs[s].c), TRUE)

ReaderError(s) ==
    /\ runs[s].pc = "awaiting" /\ runs[s].c.pc = "reading"
    /\ Settle(s, ReaderOnError(runs[s].c), TRUE)

ImgLoad(s) ==
    /\ runs[s].pc = "awaiting" /\ runs[s].c.pc = "decoding"
    /\ runs[s].c.file.size > 0
    /\ \E wh \in AppImgDims, ctxOk \in BOOLEAN :
         \E scaled \in ScaledHeights(wh[1], wh[2], runs[s].c.maxWidth) :
            Settle(s, ImgOnLoad(runs[s].c, wh[1], wh[2], scaled, ctxOk), TRUE)

ImgError(s) ==
    /\ runs[s].pc = "awaiting" /\ runs[s].c.pc = "decoding"
    /\ Settle(s, ImgOnError(runs[s].c), TRUE)

ToBlob(s) ==
    /\ runs[s].pc = "awaiting" /\ runs[s].c.pc = "encoding"
    /\ \E blob \in EncoderResults(runs[s].c), ctorOk \in BOOLEAN :
         Settle(s, ToBlobCallback(runs[s].c, blob), ctorOk)

\* analyzeImage: reader.onloadend of the blob's FileReader.  On a read error
\* reader.result is null, split throws inside the handler and the promise is
\* never resolved: the call hangs.
AnalysisLoadEnd(s, ok) ==
    /\ analyses[s].pc = "reading"
    /\ analyses' = [analyses EXCEPT
          ![s].pc = IF ok THEN "generating" ELSE "hung",
          ![s].outcome = IF ok THEN "none" ELSE "hung"]
    /\ UNCHANGED <<images, processingQueue, runs, urls, nextFile, call>>

\* analyzeImage: generateContent settles, analyzeImage returns, and the
\* then-callback of processOne merges aiAnalysis.
AnalysisSettled(s, outcome) ==
    /\ analyses[s].pc = "generating"
    /\ analyses' = [analyses EXCEPT ![s].pc = "resolved", ![s].outcome = outcome]
    /\ images' = MapAnalysis(images, runs[s].id, AiResponse(outcome))
    /\ runs' = [runs EXCEPT ![s].updates = Append(@, "analysis")]
    /\ UNCHANGED <<processingQueue, urls, nextFile, call>>

\* prev.find(img => img.id === id): the index of the first match.
FindIndex(prev, id) ==
    CHOOSE i \in 1..Len(prev) :
        /\ prev[i].id = id
        /\ \A j \in 1..(i - 1) : prev[j].id # id

\* prev.filter(img => img.id !== id)
RECURSIVE Filter(_, _)
Filter(prev, id) ==
    IF prev = <<>> THEN <<>>
    ELSE IF Head(prev).id = id THEN Filter(Tail(prev), id)
    ELSE <<Head(prev)>> \o Filter(Tail(prev), id)

\* removeImage(id), from the remove button of an item shown.
RemoveImage(id) ==
    /\ \E i \in 1..Len(images) : images[i].id = id
    /\ LET removed == images[FindIndex(images, id)]
           u1 == Revoked(urls, removed.originalUrl)
           u2 == IF removed.compressedUrl # NoUrl
                 THEN Revoked(u1, removed.compressedUrl) ELSE u1
       IN  urls' = u2
    /\ images' = Filter(images, id)
    /\ UNCHANGED <<processingQueue, runs, analyses, nextFile, call>>

AppInit ==
    /\ images = <<>>
    /\ processingQueue = {}
    /\ runs = [s \in Serials |-> IdleRun]
    /\ analyses = [s \in Serials |-> IdleAnalysis]
    /\ urls = <<>>
    /\ nextFile = 0

Init == AppInit /\ call = IdleCall

Next ==
    \/ \E isNull \in BOOLEAN, n \in 0..(MaxFiles - nextFile) :
         \E ids \in [1..n -> Ids], sizes \in [1..n -> FileSizes] :
            HandleFiles(isNull, n, ids, sizes)
    \/ \E s \in Serials : ReaderLoad(s)
    \/ \E s \in Serials : ReaderError(s)
    \/ \E s \in Serials : ImgLoad(s)
    \/ \E s \in Serials : ImgError(s)
    \/ \E s \in Serials : ToBlob(s)
    \/ \E s \in Serials, ok \in BOOLEAN : AnalysisLoadEnd(s, ok)
    \/ \E s \in Serials, outcome \in {"text", "empty", "caught"} :
         AnalysisSettled(s, outcome)
    \/ \E id \in Ids : RemoveImage(id)

Spec == Init /\ [][Next]_vars

\* The FileReader, the Image and canvas.toBlob of every compressImage call
\* each eventually run one of their callbacks.
SpecFair ==
    /\ Spec
    /\ \A s \in Serials :
          /\ WF_vars(ReaderLoad(s) \/ ReaderError(s))
          /\ WF_vars(ImgLoad(s) \/ ImgError(s))
          /\ WF_vars(ToBlob(s))

CompressInit ==
    /\ AppInit
    /\ \E size \in FileSizes, t \in Targets, m \in Dims :
         call = compressImage([serial |-> 1, size |-> size], <<t, m>>)

CompressNext ==
    \/ CallReaderLoad
    \/ CallReaderError
    \/ CallImgLoad
    \/ CallImgError
    \/ CallToBlob

SpecCompress == CompressInit /\ [][CompressNext]_vars

\* Each encoder call returns: its callback is eventually run.
SpecCompressFair == SpecCompress /\ WF_vars(CallToBlob)

\* ------------------------------------------------------------------ claims
\* Helpers of the formulas below: items are told apart by the File they hold.
SerialOf(img) == img.original.serial

ItemsOf(imgs, s) == {j \in 1..Len(imgs) : SerialOf(imgs[j]) = s}

StatusRank(status) ==
    CASE status = "pending" -> 0
      [] status = "compressing" -> 1
      [] OTHER -> 2

\* The id of file s is the id of no other submitted file.
UniqueId(s) ==
    \A t \in Serials \ {s} : runs[t].pc = "idle" \/ runs[t].id # runs[s].id

\* C1: the status of an item only moves forward along pending -> compressing
\* -> (done | error): a done or error item keeps its status, and no item goes
\* back to pending or compressing.
C1_StatusOnlyForward ==
    [][\A i \in 1..Len(images), j \in 1..Len(images') :
          SerialOf(images[i]) = SerialOf(images'[j]) =>
             /\ StatusRank(images'[j].status) >= StatusRank(images[i].status)
             /\ images[i].status \in {"done", "error"} =>
                   images'[j].status = images[i].status]_vars

\* C2: an item has its compressed blob set if and only if its status is done,
\* and then compressedSize is the byte length of that blob.
C2_CompressedIffDone ==
    \A i \in 1..Len(images) :
        /\ (images[i].compressed # NoBlob) <=> (images[i].status = "done")
        /\ images[i].compressed # NoBlob =>
              images[i].compressedSize = images[i].compressed.size

\* C3: a processOne call for an id whose earlier call is still in flight is a
\* no-op: no two compression runs are in flight for one id, and the call that
\* found the id in the guard set started no compression and issued no update.
C3_OneRunPerId ==
    /\ \A s \in Serials, t \in Serials :
          (s # t /\ runs[s].pc = "awaiting" /\ runs[t].pc = "awaiting")
             => runs[s].id # runs[t].id
    /\ \A s \in Serials :
          runs[s].pc = "skipped" =>
             /\ runs[s].c.pc = "idle"
             /\ runs[s].updates = <<>>
             /\ \A j \in ItemsOf(images, s) :
                   images[j].status # "pending" =>
                      \E t \in Serials \ {s} :
                         runs[t].id = runs[s].id /\ runs[t].updates # <<>>

\* C3 witness: two files with one id, the first call in flight, the second
\* returned at the guard.
C3_Witness ==
    \E s \in Serials, t \in Serials :
        /\ runs[s].pc = "awaiting" /\ runs[t].pc = "skipped"
        /\ runs[s].id = runs[t].id
        /\ ItemsOf(images, t) # {}

\* C4: when the compression of an item fails, in the step that ends its
\* processOne call the item has status error, a non-empty error message and no
\* compressed blob, and the promise of processOne is fulfilled, not rejected.
C4_FailureBecomesError ==
    [][\A s \in Serials :
          (runs[s].pc = "awaiting" /\ runs'[s].c.pc = "rejected") =>
             /\ runs'[s].pc = "fulfilled"
             /\ runs'[s].c.error \in
                   {ErrFileRead, ErrImageLoad, ErrCanvasContext, ErrCompression}
             /\ \A j \in ItemsOf(images', s) :
                   /\ images'[j].status = "error"
                   /\ images'[j].error = runs'[s].c.error
                   /\ images'[j].error # NoText
                   /\ images'[j].compressed = NoBlob]_vars

\* C4 witness: an item whose image failed to decode, recorded as an error.
C4_Witness ==
    \E j \in 1..Len(images) :
        /\ runs[SerialOf(images[j])].c.pc = "rejected"
        /\ images[j].status = "error"
        /\ images[j].error = ErrImageLoad
        /\ images[j].compressed = NoBlob

\* C9, as claimed: when the analyzer fails internally on a compressed item,
\* the item is done and its aiAnalysis is left unset.
C9_FailedAnalysisLeavesUnset ==
    \A s \in Serials :
        analyses[s].outcome \in {"caught", "hung"} =>
           \A j \in ItemsOf(images, s) :
              UniqueId(s) => /\ images[j].status = "done"
                             /\ images[j].aiAnalysis = NoText

\* C9, amended: the done update is issued when the analyzer is called and the
\* analyzer's failure changes no status; a failure caught inside analyzeImage
\* sets aiAnalysis to the fixed fallback text, a failed read of the blob
\* (the analyzer never resolves) changes no item.
C9_FailedAnalysisSetsFallback ==
    [][\A s \in Serials :
          /\ (analyses[s].pc = "idle" /\ analyses'[s].pc # "idle") =>
                /\ runs'[s].c.pc = "resolved"
                /\ \A j \in 1..Len(images') :
                      images'[j].id = runs[s].id => images'[j].status = "done"
          /\ (analyses[s].outcome # "caught" /\ analyses'[s].outcome = "caught") =>
                /\ Len(images') = Len(images)
                /\ \A j \in 1..Len(images') :
                      /\ images'[j].id = runs[s].id =>
                            images'[j].aiAnalysis = FallbackText
                      /\ analyses[s].pc # "idle" =>
                            images'[j].status = images[j].status
          /\ (analyses[s].outcome # "hung" /\ analyses'[s].outcome = "hung") =>
                images' = images]_vars

\* C9 witness: the analyzer failed on a done item, which shows the fallback.
C9_Witness ==
    \E j \in 1..Len(images) :
        /\ analyses[SerialOf(images[j])].outcome = "caught"
        /\ images[j].status = "done"
        /\ images[j].aiAnalysis = FallbackText

\* C10: every object URL made for an item is revoked exactly once, on the
\* removal of the item: none is revoked while the item is shown or more than
\* once, and once the item is removed and its work has finished, none is left
\* unrevoked.  Stated for the items whose id no other file shares.
C10_UrlsReleasedOnce ==
    \A s \in Serials :
        (runs[s].pc # "idle" /\ UniqueId(s)) =>
           \A u \in DOMAIN urls :
              u[1] = s =>
                 /\ urls[u] <= 1
                 /\ ItemsOf(images, s) # {} => urls[u] = 0
                 /\ (/\ ItemsOf(images, s) = {}
                     /\ runs[s].pc \in {"fulfilled", "skipped"}
                     /\ analyses[s].pc \in {"idle", "resolved", "hung"})
                       => urls[u] = 1

\* Encode attempts of the standalone call: the callbacks run so far and the
\* toBlob call still waiting for its callback.
AttemptsMade == Len(call.attempts) + (IF call.pc = "encoding" THEN 1 ELSE 0)

\* Whether attempt a of the standalone call meets the stop condition as the
\* specification words it: size in KB at most the target, or quality at the
\* floor.
C5_StopsAt(a) ==
    a.blob.size <= call.targetSizeKb * 1024 \/ a.q <= 10

\* C5: the encode attempts are at qualities 0.92, 0.84, 0.76, ... in that
\* order; the blob returned is that of the first attempt whose size is at most
\* the target or whose quality has reached the floor, which is the last attempt
\* made; an image under the target at 0.92 takes exactly one attempt.
C5_ReturnsFirstStoppingAttempt ==
    LET a == call.attempts
        k == Len(call.attempts)
    IN  /\ \A i \in 1..k : a[i].q = 92 - 8 * (i - 1)
        /\ call.pc = "encoding" =>
              /\ call.q = 92 - 8 * k
              /\ \A i \in 1..k : a[i].blob # NoBlob /\ ~C5_StopsAt(a[i])
        /\ call.pc = "resolved" =>
              /\ k >= 1
              /\ call.result = a[k].blob
              /\ call.result # NoBlob
              /\ call.result.n = k
              /\ C5_StopsAt(a[k])
              /\ \A i \in 1..(k - 1) : a[i].blob # NoBlob /\ ~C5_StopsAt(a[i])
        /\ (k >= 1 /\ a[1].blob # NoBlob
              /\ a[1].blob.size <= call.targetSizeKb * 1024) =>
              k = 1 /\ call.pc = "resolved"

\* C5 witness: the third attempt is the first under the target and is returned.
C5_Witness ==
    /\ call.pc = "resolved"
    /\ Len(call.attempts) = 3
    /\ call.result.n = 3
    /\ call.result.size <= call.targetSizeKb * 1024
    /\ call.attempts[3].q = 76

\* C6: every quality passed to the encoder lies between 0.10 and 0.92.
C6_QualityWithinFloor ==
    /\ call.pc = "encoding" => (10 <= call.q /\ call.q <= 92)
    /\ \A i \in 1..Len(call.attempts) :
          10 <= call.attempts[i].q /\ call.attempts[i].q <= 92

\* ceil((0.92 - 0.10) / 0.08) + 1, in hundredths.
C7_MaxAttempts == ((92 - 10) + 8 - 1) \div 8 + 1

\* C7: the retry loop makes at most ceil((0.92 - 0.10) / 0.08) + 1 = 12 encode
\* attempts and, each encoder call returning, ends with the promise settled.
C7_LoopTerminates ==
    /\ [](AttemptsMade <= C7_MaxAttempts /\ C7_MaxAttempts = 12)
    /\ (call.pc = "encoding") ~> (call.pc \in {"resolved", "rejected"})

\* C7 witness: a call that took all twelve attempts and returned the last.
C7_Witness ==
    /\ call.pc = "resolved"
    /\ Len(call.attempts) = 12
    /\ call.result.n = 12

\* C8: an image no wider than maxWidth is drawn at its own width and height;
\* a wider one at width maxWidth and the height scaled by the same ratio,
\* within one pixel.
C8_ResizeKeepsRatio ==
    call.imgWidth > 0 =>
       IF call.imgWidth <= call.maxWidth
       THEN call.width = call.imgWidth /\ call.height = call.imgHeight
       ELSE /\ call.width = call.maxWidth
            /\ call.height * call.imgWidth <= call.imgHeight * call.maxWidth
            /\ call.imgHeight * call.maxWidth <= (call.height + 1) * call.imgWidth

\* C8 witness: a 3 x 2 image drawn for maxWidth 2 on a 2 x 1 canvas.
C8_Witness ==
    /\ call.pc = "encoding"
    /\ call.imgWidth = 3 /\ call.imgHeight = 2 /\ call.maxWidth = 2
    /\ call.width = 2 /\ call.height = 1

\* The update that run s issues in this step, "none" when it issues none.  A
\* step that issues two issues the terminal update first.
IssuedBy(s) ==
    IF Len(runs'[s].updates) > Len(runs[s].updates)
    THEN runs'[s].updates[Len(runs[s].updates) + 1]
    ELSE "none"

\* C11: each processOne run that passes the guard issues exactly one update
\* setting status to compressing and then exactly one terminal update, done
\* with the blob and its size or error with the message; every update after
\* the terminal one is the analysis update.
C11_OneCompressingThenOneTerminal ==
    /\ [](\A s \in Serials :
            LET u == runs[s].updates
            IN  /\ runs[s].pc \in {"idle", "skipped"} => u = <<>>
                /\ runs[s].pc = "awaiting" => u = <<"compressing">>
                /\ runs[s].pc = "fulfilled" =>
                      /\ Len(u) >= 2
                      /\ u[1] = "compressing"
                      /\ u[2] \in {"done", "error"}
                      /\ \A k \in 3..Len(u) : u[k] = "analysis")
    /\ [][\A s \in Serials :
            \A j \in 1..Len(images') :
               images'[j].id = runs'[s].id =>
                  /\ IssuedBy(s) = "compressing" =>
                        images'[j].status = "compressing"
                  /\ IssuedBy(s) = "done" =>
                        /\ images'[j].status = "done"
                        /\ images'[j].compressed = runs'[s].c.result
                        /\ images'[j].compressed # NoBlob
                        /\ images'[j].compressedSize = images'[j].compressed.size
                  /\ IssuedBy(s) = "error" =>
                        /\ images'[j].status = "error"
                        /\ images'[j].error = runs'[s].c.error]_vars

\* C11 witness: a finished run that issued compressing, then done, and whose
\* item shows the blob.
C11_Witness ==
    \E j \in 1..Len(images) :
        /\ runs[SerialOf(images[j])].updates = <<"compressing", "done">>
        /\ images[j].status = "done"
        /\ images[j].compressed # NoBlob

\* C12, as claimed: the compressor called by processOne runs with target size
\* 800 KB and max dimension 800, so a 3000 px wide image is drawn 800 wide.
C12_MaxDimensionIs800 ==
    \A s \in Serials :
        runs[s].pc = "awaiting" =>
           /\ runs[s].c.targetSizeKb = 800
           /\ runs[s].c.maxWidth = 800
           /\ runs[s].c.imgWidth = 3000 => runs[s].c.width = 800

\* C12, amended: the compressor called by processOne runs with target size
\* 800 KB and its own default max dimension 2560: a 3000 x 2000 image is drawn
\* 2560 x 1706 and an 800 px wide one is left at 800.
C12_MaxDimensionIsDefault ==
    \A s \in Serials :
        runs[s].pc = "awaiting" =>
           /\ runs[s].c.targetSizeKb = 800
           /\ runs[s].c.maxWidth = 2560
           /\ runs[s].c.imgWidth = 3000 =>
                 runs[s].c.width = 2560 /\ runs[s].c.height = 1706
           /\ runs[s].c.imgWidth = 800 =>
                 runs[s].c.width = 800 /\ runs[s].c.height = 600

\* C12 witness: a 3000 x 2000 image being encoded from a 2560 px wide canvas.
C12_Witness ==
    \E s \in Serials :
        /\ runs[s].pc = "awaiting" /\ runs[s].c.pc = "encoding"
        /\ runs[s].c.imgWidth = 3000 /\ runs[s].c.imgHeight = 2000
        /\ runs[s].c.width = 2560

\* C14: every analyzer call started for a compressed item delivers its one
\* analysis update: a call that has not delivered it yet can still take a
\* step towards it, and no call delivers more than one.
C14_AnalysisAlwaysArrives ==
    \A s \in Serials :
        analyses[s].pc # "idle" =>
           /\ Cardinality({k \in 1..Len(runs[s].updates) :
                              runs[s].updates[k] = "analysis"}) <= 1
           /\ \/ \E k \in 1..Len(runs[s].updates) : runs[s].updates[k] = "analysis"
              \/ ENABLED (\E ok \in BOOLEAN : AnalysisLoadEnd(s, ok))
              \/ ENABLED (\E outcome \in {"text", "empty", "caught"} :
                             AnalysisSettled(s, outcome))

\* C15: an aiAnalysis that is set is never cleared by a later update while
\* the item stays in the collection.
C15_AnalysisNeverCleared ==
    [][\A i \in 1..Len(images), j \in 1..Len(images') :
          (SerialOf(images[i]) = SerialOf(images'[j])
              /\ images[i].aiAnalysis # NoText)
             => images'[j].aiAnalysis # NoText]_vars

\* C15 witness: an item with its analysis set that a later compressing update
\* has reached.
C15_Witness ==
    \E j \in 1..Len(images) :
        /\ images[j].aiAnalysis # NoText
        /\ images[j].status = "compressing"

\* C16: the items of the collection have pairwise distinct ids.
C16_IdsDistinct ==
    \A i \in 1..Len(images), j \in 1..Len(images) :
        i # j => images[i].id # images[j].id

\* C17: the guard set holds exactly the ids that have a processOne run in
\* flight, and the id of a run that has finished, by success or by any
\* failure, is in the set only while a later run for that id is in flight.
C17_GuardSetIsInFlight ==
    /\ processingQueue = {runs[s].id : s \in {t \in Serials : runs[t].pc = "awaiting"}}
    /\ \A s \in Serials :
          runs[s].pc = "fulfilled" =>
             \/ runs[s].id \notin processingQueue
             \/ \E t \in Serials \ {s} :
                   runs[t].pc = "awaiting" /\ runs[t].id = runs[s].id

\* C17 witness: one run ended by a failure and its id left the set while
\* another run is in flight with its id in the set.
C17_Witness ==
    \E s \in Serials, t \in Serials :
        /\ runs[s].pc = "fulfilled" /\ runs[s].c.pc = "rejected"
        /\ runs[s].id \notin processingQueue
        /\ runs[t].pc = "awaiting" /\ runs[t].id \in processingQueue

\* C18: every processOne run that starts compressing ends, its callbacks
\* being delivered, and the step that ends it leaves its item, if still in
\* the collection, with status done or error.
C18_StartedRunsFinish ==
    /\ \A s \in Serials :
          (runs[s].pc = "awaiting") ~> (runs[s].pc = "fulfilled")
    /\ [][\A s \in Serials :
            (runs[s].pc = "awaiting" /\ runs'[s].pc # "awaiting") =>
               /\ runs'[s].pc = "fulfilled"
               /\ \A j \in ItemsOf(images', s) :
                     images'[j].status \in {"done", "error"}]_vars

\* C18 witness: a run that went through all twelve encode attempts and ended
\* with its item done.
C18_Witness ==
    \E j \in 1..Len(images) :
        /\ runs[SerialOf(images[j])].pc = "fulfilled"
        /\ images[j].status = "done"
        /\ images[j].compressed.n = 12

\* C19: once the item of a started run has been removed from the collection,
\* no later update of that run (compressing, done, error or analysis) changes
\* the collection: the item is not re-added and no remaining item changes.
C19_RemovalDetachesResult ==
    [][\A s \in Serials :
          (/\ runs[s].pc # "idle"
           /\ ItemsOf(images, s) = {}
           /\ IssuedBy(s) # "none") => images' = images]_vars

\* C20: a step in which run s issues an update leaves every item of another
\* file as it was, and a step in which it issues the error update leaves every
\* other run as it was.
C20_UpdateTouchesOwnItemOnly ==
    [][\A s \in Serials :
          IssuedBy(s) # "none" =>
             /\ \A i \in 1..Len(images), j \in 1..Len(images') :
                   (/\ SerialOf(images[i]) = SerialOf(images'[j])
                    /\ runs[SerialOf(images[i])].pc # "idle"
                    /\ IssuedBy(SerialOf(images[i])) = "none")
                      => images'[j] = images[i]
             /\ IssuedBy(s) = "error" =>
                   \A t \in Serials \ {s} :
                      runs[t].pc # "idle" => runs'[t] = runs[t]]_vars

\* C21: analyzeImage is called at most once per run, only by a run whose
\* compressImage resolved, and with the blob it resolved with; and an item
\* whose status is error has no aiAnalysis.
C21_AnalyzerOnceOnCompressed ==
    /\ \A s \in Serials :
          /\ analyses[s].pc # "idle" =>
                /\ runs[s].pc = "fulfilled"
                /\ runs[s].c.pc = "resolved"
                /\ analyses[s].blob # NoBlob
                /\ analyses[s].blob = runs[s].c.result
          /\ Cardinality({k \in 1..Len(runs[s].updates) :
                            runs[s].updates[k] = "analysis"}) <= 1
    /\ \A j \in 1..Len(images) :
          images[j].status = "error" => images[j].aiAnalysis = NoText
====
